---- MODULE Spec2Model ----
(***************************************************************************)
(* Hotel POS backend (src/main.py): the item collection, the sale          *)
(* collection and the receipt counter of the document store, and the       *)
(* request handlers that read and write them.  Every store call of a       *)
(* handler is one atomic step; concurrent requests interleave between      *)
(* store calls.                                                            *)
(*                                                                         *)
(* Amounts are Python floats.  A float is modelled as a record             *)
(* [nan, v]: either NaN, or the finite amount v counted in thousandths     *)
(* of the currency unit, so that round(x, 2) has something to round.       *)
(***************************************************************************)
EXTENDS Integers, Sequences, FiniteSets, TLC

\* ------------------------------------------------------------------------
\* Bounds of the model
\* ------------------------------------------------------------------------
MaxLines == 2       \* longest list of lines in a sale request
MaxRequests == 2    \* sale requests accepted in one behaviour of SpecConc
MaxCrud == 1        \* item create/update/delete requests in one behaviour
MaxReads == 2       \* receipt and statistics requests in one behaviour

Procs == {1, 2}                  \* concurrent request workers
ItemIds == {"a1", "b2"}          \* well-formed ids (ObjectId hex strings)
BadId == "zz"                    \* an id string ObjectId() rejects
Quantities == {-1, 0, 1, 2}        \* SaleItemIn.quantity: int
Stocks == {-1, 3}                \* ItemIn.stock / ItemUpdate.stock: int
Times == {1, 2}                  \* readings of datetime.utcnow()
None == <<>>                     \* an optional value left out
Some(x) == <<x>>                 \* an optional value given

\* ------------------------------------------------------------------------
\* Python float
\* ------------------------------------------------------------------------
F(x) == [nan |-> FALSE, v |-> x]
NaN == [nan |-> TRUE, v |-> 0]

FAdd(a, b) == IF a.nan \/ b.nan THEN NaN ELSE F(a.v + b.v)
FSub(a, b) == IF a.nan \/ b.nan THEN NaN ELSE F(a.v - b.v)
\* float * int
FMul(a, n) == IF a.nan THEN NaN ELSE F(a.v * n)
\* Comparisons with NaN are all false.
FLt(a, b) == ~a.nan /\ ~b.nan /\ a.v < b.v
FGe(a, b) == ~a.nan /\ ~b.nan /\ a.v >= b.v

\* One hundredth of the currency unit, in thousandths.
Cent == 10

\* round(x, 2): to the nearest hundredth, a tie to the even hundredth.
RoundCents(x) ==
    LET q == x \div Cent
        r == x % Cent
    IN  IF 2 * r < Cent THEN q * Cent
        ELSE IF 2 * r > Cent THEN (q + 1) * Cent
        ELSE IF q % 2 = 0 THEN q * Cent ELSE (q + 1) * Cent

Round2(a) == IF a.nan THEN NaN ELSE F(RoundCents(a.v))

Paids == {NaN, F(3000)}                  \* SaleIn.paid: float

\* ------------------------------------------------------------------------
\* Documents
\* ------------------------------------------------------------------------
\* ObjectId(id_str)
ObjectId(s) == [oid |-> s]

\* oid(): the ObjectId of a well-formed string; HTTP 400 otherwise.
oid_ok(s) == s \in ItemIds

\* A slot of the item collection: "free" (id never issued), "live" (the
\* document is stored) or "gone" (deleted; ids are never issued twice).
NoItem(s) == [st |-> s, name |-> "", price |-> F(0), stock |-> 0, is_active |-> FALSE]

ItemDoc(n, p, s, a) == [st |-> "live", name |-> n, price |-> p, stock |-> s, is_active |-> a]

\* ItemIn
ItemIns == {ItemDoc("Tea", F(1004), s, a) : s \in Stocks, a \in BOOLEAN}

\* ItemUpdate: every field optional; None fields are dropped (line 146).
ItemUpdates ==
    {u \in [name : {None, Some("Latte")}, price : {None, Some(F(1004))},
            stock : {None} \cup {Some(s) : s \in Stocks},
            is_active : {None, Some(TRUE), Some(FALSE)}] :
        Cardinality({f \in {"name", "price", "stock", "is_active"} : u[f] # None}) = 1}

\* SaleIn
SaleLines == [item_id : ItemIds, quantity : Quantities] \cup {[item_id |-> BadId, quantity |-> 1]}

SeqsUpTo(S, n) == UNION {[1..k -> S] : k \in 0..n}

SaleIns == [items : SeqsUpTo(SaleLines, MaxLines), paid : Paids]

\* The requests that race in SpecConc.
Line(id, q) == [item_id |-> id, quantity |-> q]
SaleInsConc ==
    [items : {<<Line("a1", 1)>>, <<Line("a1", 1), Line("b2", 1)>>, <<Line("b2", 2)>>},
     paid : {F(6000)}]

NoPayload == [items |-> <<>>, paid |-> F(0)]
NoReceipt == [ts |-> 0, seq |-> <<>>]
NoResponse == [status |-> 0, detail |-> "", arg |-> "", body |-> None]
NoRead == [op |-> "", arg |-> None, status |-> 0, body |-> None]

VARIABLES
    item,        \* db["item"]: id -> document slot
    sale,        \* db["sale"]: the documents in insertion order
    counters,    \* db["counters"]: set of documents
    issued,      \* the values generate_receipt_no has returned, in order
    pc,          \* per worker: where its request stands
    payload,     \* per worker: the SaleIn of its request
    line_items,  \* per worker: create_sale's line_items
    subtotal,    \* per worker: create_sale's subtotal
    receipt_no,  \* per worker: create_sale's receipt_no
    sale_id,     \* per worker: create_sale's sale_id (index in sale; 0 = none)
    dec,         \* per worker: lines whose stock update has been issued
    response,    \* per worker: the HTTP response of its request
    nreq,        \* sale requests accepted so far
    ncrud,       \* item requests served so far
    failed,      \* has a store call of a sale request raised
    answers,     \* the sales get_receipt has returned, in order
    read_resp,   \* the response of the latest read request
    nread        \* read requests served so far

vars == <<item, sale, counters, issued, pc, payload, line_items, subtotal,
          receipt_no, sale_id, dec, response, nreq, ncrud, failed, answers,
          read_resp, nread>>

store == <<item, sale, counters>>
locals == <<pc, payload, line_items, subtotal, receipt_no, sale_id, dec, response>>
reads == <<answers, read_resp, nread>>

\* ------------------------------------------------------------------------
\* Initial state: a store that already holds one or two items, no sale
\* and no counter document; every worker idle.
\* ------------------------------------------------------------------------
Coffee == ItemDoc("Coffee", F(3000), 1, TRUE)

InitItems ==
    {[i \in ItemIds |-> IF i = "a1" THEN Coffee ELSE d] :
        d \in {NoItem("free"), ItemDoc("Tea", F(1004), 2, FALSE)}}

InitItemsConc == [i \in ItemIds |-> IF i = "a1" THEN Coffee ELSE ItemDoc("Tea", F(1004), 2, TRUE)]

InitWith(items) ==
    /\ item \in items
    /\ sale = <<>>
    /\ counters = {}
    /\ issued = <<>>
    /\ pc = [p \in Procs |-> "idle"]
    /\ payload = [p \in Procs |-> NoPayload]
    /\ line_items = [p \in Procs |-> <<>>]
    /\ subtotal = [p \in Procs |-> F(0)]
    /\ receipt_no = [p \in Procs |-> NoReceipt]
    /\ sale_id = [p \in Procs |-> 0]
    /\ dec = [p \in Procs |-> 0]
    /\ response = [p \in Procs |-> NoResponse]
    /\ nreq = 0
    /\ ncrud = 0
    /\ failed = FALSE
    /\ answers = <<>>
    /\ read_resp = NoRead
    /\ nread = 0

\* ------------------------------------------------------------------------
\* Inventory endpoints.  A request that only returns an error (a malformed
\* id, an id that matches no document) changes nothing and is left out.
\* The created_at / updated_at stamps of an item are read by no handler
\* and are not modelled.
\* ------------------------------------------------------------------------
\* POST /api/items
create_item(id, doc) ==
    /\ ncrud < MaxCrud
    /\ item[id].st = "free"
    /\ item' = [item EXCEPT ![id] = doc]
    /\ ncrud' = ncrud + 1
    /\ UNCHANGED <<sale, counters, issued, nreq, locals, failed, reads>>

\* {"$set": updates}: the fields of the patch that are not None
apply_updates(doc, u) ==
    [st |-> doc.st,
     name |-> IF u.name = None THEN doc.name ELSE u.name[1],
     price |-> IF u.price = None THEN doc.price ELSE u.price[1],
     stock |-> IF u.stock = None THEN doc.stock ELSE u.stock[1],
     is_active |-> IF u.is_active = None THEN doc.is_active ELSE u.is_active[1]]

\* Mutant of update_item: the lines of the stored sales follow the Item.
update_item_cascade(id, u) ==
    /\ ncrud < MaxCrud
    /\ item[id].st = "live"
    /\ item' = [item EXCEPT ![id] = apply_updates(item[id], u)]
    /\ sale' = [i \in DOMAIN sale |->
                [sale[i] EXCEPT !.items =
                    [k \in DOMAIN sale[i].items |->
                        IF sale[i].items[k].item_id = ObjectId(id)
                        THEN [sale[i].items[k] EXCEPT
                                !.name = apply_updates(item[id], u).name,
                                !.price = apply_updates(item[id], u).price]
                        ELSE sale[i].items[k]]]]
    /\ ncrud' = ncrud + 1
    /\ UNCHANGED <<counters, issued, nreq, locals, failed, reads>>

\* PUT /api/items/{item_id}
update_item(id, u) ==
    /\ ncrud < MaxCrud
    /\ item[id].st = "live"
    /\ item' = [item EXCEPT ![id] = apply_updates(item[id], u)]
    /\ ncrud' = ncrud + 1
    /\ UNCHANGED <<sale, counters, issued, nreq, locals, failed, reads>>

\* DELETE /api/items/{item_id}
delete_item(id) ==
    /\ ncrud < MaxCrud
    /\ item[id].st = "live"
    /\ item' = [item EXCEPT ![id] = NoItem("gone")]
    /\ ncrud' = ncrud + 1
    /\ UNCHANGED <<sale, counters, issued, nreq, locals, failed, reads>>

\* ------------------------------------------------------------------------
\* Receipt numbers
\* ------------------------------------------------------------------------
\* The decimal digits of n >= 0, most significant first.
RECURSIVE Digits(_)
Digits(n) == IF n < 10 THEN <<n>> ELSE Append(Digits(n \div 10), n % 10)

\* f"{num:04d}": the digits of num, zero-padded on the left to 4 places.
RECURSIVE PadLeft(_, _)
PadLeft(ds, w) == IF Len(ds) >= w THEN ds ELSE PadLeft(<<0>> \o ds, w)

SeqWidth == 4

Format04(num) == PadLeft(Digits(num), SeqWidth)

\* The number a string of decimal digits denotes.
RECURSIVE DigitsValue(_)
DigitsValue(ds) ==
    IF ds = <<>> THEN 0
    ELSE 10 * DigitsValue(SubSeq(ds, 1, Len(ds) - 1)) + ds[Len(ds)]

\* f"R{ts}-{num:04d}"
ReceiptNo(t, num) == [ts |-> t, seq |-> Format04(num)]

\* Mutant of inc_receipt: the update sets seq instead of incrementing it.
inc_receipt_set(cs) ==
    {c \in cs : c._id # "receipt"} \cup {[_id |-> "receipt", seq |-> 1]}

\* db["counters"].find_one_and_update({"_id": "receipt"}, {"$inc": {"seq": 1}},
\*     upsert=True, return_document=True): the collection afterwards.
inc_receipt(cs) ==
    IF \E c \in cs : c._id = "receipt"
    THEN {IF c._id = "receipt" THEN [c EXCEPT !.seq = c.seq + 1] ELSE c : c \in cs}
    ELSE cs \cup {[_id |-> "receipt", seq |-> 1]}

\* Mutant of returned_seq: the document before the update is returned.
returned_seq_before(cs) ==
    IF \E c \in cs : c._id = "receipt"
    THEN (CHOOSE c \in cs : c._id = "receipt").seq
    ELSE 1

\* seq.get("seq", 1) of the document returned (the document after the update)
returned_seq(cs) == (CHOOSE c \in inc_receipt(cs) : c._id = "receipt").seq

\* The current value of the counter; 0 while the document does not exist.
CounterValue == IF counters = {} THEN 0 ELSE (CHOOSE c \in counters : c._id = "receipt").seq

\* ------------------------------------------------------------------------
\* create_sale, one action per store call
\* ------------------------------------------------------------------------
Respond(p, st, d, a, b) ==
    /\ response' = [response EXCEPT ![p] = [status |-> st, detail |-> d, arg |-> a, body |-> b]]
    /\ pc' = [pc EXCEPT ![p] = "done"]

\* A request is taken by the first idle worker.
Idlest(p) == pc[p] = "idle" /\ \A q \in Procs : pc[q] = "idle" => ~(q < p)

\* Lines 178-186: the request is parsed; an empty list of lines is refused.
\* (db is taken to be connected: the check of line 179 passes.)
create_sale_begin(p, pl) ==
    /\ nreq < MaxRequests
    /\ Idlest(p)
    /\ nreq' = nreq + 1
    /\ payload' = [payload EXCEPT ![p] = pl]
    /\ line_items' = [line_items EXCEPT ![p] = <<>>]
    /\ subtotal' = [subtotal EXCEPT ![p] = F(0)]
    /\ IF pl.items = <<>>
       THEN Respond(p, 400, "No items in sale", "", None)
       ELSE /\ pc' = [pc EXCEPT ![p] = "fetch"]
            /\ UNCHANGED response
    /\ UNCHANGED <<store, issued, receipt_no, sale_id, dec, ncrud,
                   failed, reads>>

\* Mutant of find_active: the filter leaves out is_active.
find_any(id) == item[id].st = "live"

\* db["item"].find_one({"_id": ..., "is_active": True}): is a document found
find_active(id) == item[id].st = "live" /\ item[id].is_active

\* Mutant of insufficient_stock: the comparison is the wrong way round.
insufficient_stock_swapped(doc, quantity) == quantity < doc.stock

\* item_doc.get("stock", 0) < it.quantity
insufficient_stock(doc, quantity) == doc.stock < quantity

\* Mutant of line_item: the line total forgets the quantity.
line_item_unit(id, doc, quantity) ==
    [item_id |-> ObjectId(id), name |-> doc.name, price |-> doc.price,
     quantity |-> quantity, line_total |-> doc.price]

\* The line record appended to line_items (lines 193-202).
line_item(id, doc, quantity) ==
    [item_id |-> ObjectId(id), name |-> doc.name, price |-> doc.price,
     quantity |-> quantity, line_total |-> FMul(doc.price, quantity)]

\* Mutant of create_sale_fetch: the stock is compared before the Item is
\* known to be available.
create_sale_fetch_stock_first(p) ==
    /\ pc[p] = "fetch"
    /\ LET it == payload[p].items[Len(line_items[p]) + 1]
           id == it.item_id
       IN  IF ~oid_ok(id)
           THEN /\ Respond(p, 400, "Invalid id format", "", None)
                /\ UNCHANGED <<line_items, subtotal>>
           ELSE IF insufficient_stock(item[id], it.quantity)
           THEN /\ Respond(p, 400, "Insufficient stock", item[id].name, None)
                /\ UNCHANGED <<line_items, subtotal>>
           ELSE IF ~find_active(id)
           THEN /\ Respond(p, 400, "Item not available", id, None)
                /\ UNCHANGED <<line_items, subtotal>>
           ELSE LET li == line_item(id, item[id], it.quantity)
                IN  /\ line_items' = [line_items EXCEPT ![p] = Append(@, li)]
                    /\ subtotal' = [subtotal EXCEPT ![p] = FAdd(@, li.line_total)]
                    /\ pc' = [pc EXCEPT ![p] =
                                IF Len(line_items[p]) + 1 = Len(payload[p].items)
                                THEN "pay" ELSE "fetch"]
                    /\ UNCHANGED response
    /\ UNCHANGED <<store, issued, payload, receipt_no, sale_id, dec, nreq, ncrud,
                   failed, reads>>

\* Lines 187-202, one pass of the loop: the next line is looked up,
\* checked and recorded.
create_sale_fetch(p) ==
    /\ pc[p] = "fetch"
    /\ LET it == payload[p].items[Len(line_items[p]) + 1]
           id == it.item_id
       IN  IF ~oid_ok(id)
           THEN /\ Respond(p, 400, "Invalid id format", "", None)
                /\ UNCHANGED <<line_items, subtotal>>
           ELSE IF ~find_active(id)
           THEN /\ Respond(p, 400, "Item not available", id, None)
                /\ UNCHANGED <<line_items, subtotal>>
           ELSE IF insufficient_stock(item[id], it.quantity)
           THEN /\ Respond(p, 400, "Insufficient stock", item[id].name, None)
                /\ UNCHANGED <<line_items, subtotal>>
           ELSE LET li == line_item(id, item[id], it.quantity)
                IN  /\ line_items' = [line_items EXCEPT ![p] = Append(@, li)]
                    /\ subtotal' = [subtotal EXCEPT ![p] = FAdd(@, li.line_total)]
                    /\ pc' = [pc EXCEPT ![p] =
                                IF Len(line_items[p]) + 1 = Len(payload[p].items)
                                THEN "pay" ELSE "fetch"]
                    /\ UNCHANGED response
    /\ UNCHANGED <<store, issued, payload, receipt_no, sale_id, dec, nreq, ncrud,
                   failed, reads>>

\* tax 0%
TaxRate == 0

\* round(subtotal * 0.0, 2)
tax_of(sub) == Round2(FMul(sub, TaxRate))

\* round(subtotal + tax, 2)
total_of(sub) == Round2(FAdd(sub, tax_of(sub)))

\* Mutant of paid_less: the comparison is the wrong way round.
paid_less_swapped(paid, tot) == FLt(tot, paid)

\* payload.paid < total
paid_less(paid, tot) == FLt(paid, tot)

\* round(payload.paid - total, 2)
change_of(paid, tot) == Round2(FSub(paid, tot))

\* Mutant of create_sale_pay: the receipt number is taken before the
\* payment check.
create_sale_pay_late(p) ==
    /\ pc[p] = "pay"
    /\ counters' = inc_receipt(counters)
    /\ IF paid_less(payload[p].paid, total_of(subtotal[p]))
       THEN Respond(p, 400, "Paid amount is less than total", "", None)
       ELSE /\ pc' = [pc EXCEPT ![p] = "receipt"]
            /\ UNCHANGED response
    /\ UNCHANGED <<item, sale, issued, payload, line_items, subtotal, receipt_no,
                   sale_id, dec, nreq, ncrud, failed, reads>>

\* Lines 204-208: totals and the payment check.
create_sale_pay(p) ==
    /\ pc[p] = "pay"
    /\ IF paid_less(payload[p].paid, total_of(subtotal[p]))
       THEN Respond(p, 400, "Paid amount is less than total", "", None)
       ELSE /\ pc' = [pc EXCEPT ![p] = "receipt"]
            /\ UNCHANGED response
    /\ UNCHANGED <<store, issued, payload, line_items, subtotal, receipt_no,
                   sale_id, dec, nreq, ncrud, failed, reads>>

\* Lines 168-174 and 211: generate_receipt_no.  The clock reading is any
\* of Times: the wall clock is not tied to the order of the store calls.
generate_receipt_no(p, t) ==
    /\ pc[p] = "receipt"
    /\ counters' = inc_receipt(counters)
    /\ receipt_no' = [receipt_no EXCEPT ![p] = ReceiptNo(t, returned_seq(counters))]
    /\ issued' = Append(issued, ReceiptNo(t, returned_seq(counters)))
    /\ pc' = [pc EXCEPT ![p] = "insert"]
    /\ UNCHANGED <<item, sale, payload, line_items, subtotal, sale_id, dec,
                   response, nreq, ncrud, failed, reads>>

\* Lines 213-224: the sale document.
sale_doc(p, t) ==
    [items |-> line_items[p],
     subtotal |-> Round2(subtotal[p]),
     tax |-> tax_of(subtotal[p]),
     total |-> total_of(subtotal[p]),
     paid |-> payload[p].paid,
     change |-> change_of(payload[p].paid, total_of(subtotal[p])),
     receipt_no |-> receipt_no[p],
     created_at |-> t]

\* Mutant of create_sale_insert: the document is inserted twice.
create_sale_insert_twice(p, t) ==
    /\ pc[p] = "insert"
    /\ sale' = Append(Append(sale, sale_doc(p, t)), sale_doc(p, t))
    /\ sale_id' = [sale_id EXCEPT ![p] = Len(sale) + 1]
    /\ dec' = [dec EXCEPT ![p] = 0]
    /\ pc' = [pc EXCEPT ![p] = "stock"]
    /\ UNCHANGED <<item, counters, issued, payload, line_items, subtotal,
                   receipt_no, response, nreq, ncrud, failed, reads>>

\* Line 230: db["sale"].insert_one(sale_doc)
create_sale_insert(p, t) ==
    /\ pc[p] = "insert"
    /\ sale' = Append(sale, sale_doc(p, t))
    /\ sale_id' = [sale_id EXCEPT ![p] = Len(sale) + 1]
    /\ dec' = [dec EXCEPT ![p] = 0]
    /\ pc' = [pc EXCEPT ![p] = "stock"]
    /\ UNCHANGED <<item, counters, issued, payload, line_items, subtotal,
                   receipt_no, response, nreq, ncrud, failed, reads>>

\* Mutant of inc_stock: the stock goes down by one, whatever the quantity.
inc_stock_one(items, id, quantity) ==
    IF items[id].st = "live"
    THEN [items EXCEPT ![id].stock = @ - 1]
    ELSE items

\* Mutant of inc_stock: the new stock is computed from the stock the Item
\* had at the start, not from its stock now.
inc_stock_stale(items, id, quantity) ==
    IF items[id].st = "live"
    THEN [items EXCEPT ![id].stock = InitItemsConc[id].stock - quantity]
    ELSE items

\* update_one({"_id": id}, {"$inc": {"stock": -quantity}, ...}): the
\* collection afterwards; a filter that matches no document changes nothing.
inc_stock(items, id, quantity) ==
    IF items[id].st = "live"
    THEN [items EXCEPT ![id].stock = @ - quantity]
    ELSE items

\* Mutant of create_sale_stock: the lines are taken last to first.
create_sale_stock_reverse(p) ==
    /\ pc[p] = "stock"
    /\ LET li == line_items[p][Len(line_items[p]) - dec[p]]
       IN  item' = inc_stock(item, li.item_id.oid, li.quantity)
    /\ dec' = [dec EXCEPT ![p] = @ + 1]
    /\ pc' = [pc EXCEPT ![p] = IF dec[p] + 1 = Len(line_items[p]) THEN "saved" ELSE "stock"]
    /\ UNCHANGED <<sale, counters, issued, payload, line_items, subtotal,
                   receipt_no, sale_id, response, nreq, ncrud, failed, reads>>

\* Lines 232-233, one pass of the loop.
create_sale_stock(p) ==
    /\ pc[p] = "stock"
    /\ LET li == line_items[p][dec[p] + 1]
       IN  item' = inc_stock(item, li.item_id.oid, li.quantity)
    /\ dec' = [dec EXCEPT ![p] = @ + 1]
    /\ pc' = [pc EXCEPT ![p] = IF dec[p] + 1 = Len(line_items[p]) THEN "saved" ELSE "stock"]
    /\ UNCHANGED <<sale, counters, issued, payload, line_items, subtotal,
                   receipt_no, sale_id, response, nreq, ncrud, failed, reads>>

\* serialize(): the ObjectIds of the lines become their strings.
serialize(doc) ==
    [doc EXCEPT !.items = [k \in DOMAIN doc.items |-> [doc.items[k] EXCEPT !.item_id = @.oid]]]

\* Lines 234-235: the stored sale is read back and returned (201).
create_sale_saved(p) ==
    /\ pc[p] = "saved"
    /\ Respond(p, 201, "", "", Some(serialize(sale[sale_id[p]])))
    /\ UNCHANGED <<store, issued, payload, line_items, subtotal, receipt_no,
                   sale_id, dec, nreq, ncrud, failed, reads>>

\* Mutant of store_error: a stock update that raised is issued again and
\* applied before the request is answered.
store_error_retry(p) ==
    /\ pc[p] \in {"fetch", "receipt", "insert", "stock", "saved"}
    /\ Respond(p, 500, "store error", "", None)
    /\ failed' = TRUE
    /\ item' = IF pc[p] = "stock"
               THEN LET li == line_items[p][dec[p] + 1]
                    IN  inc_stock(item, li.item_id.oid, li.quantity)
               ELSE item
    /\ UNCHANGED <<sale, counters, issued, payload, line_items, subtotal,
                   receipt_no, sale_id, dec, nreq, ncrud, reads>>

\* A store call that raises.  Inside the try block (lines 228-237) the
\* handler turns it into a 500; outside it the framework does.
store_error(p) ==
    /\ pc[p] \in {"fetch", "receipt", "insert", "stock", "saved"}
    /\ Respond(p, 500, IF pc[p] \in {"insert", "stock", "saved"}
                       THEN "store error" ELSE "Internal Server Error", "", None)
    /\ failed' = TRUE
    /\ UNCHANGED <<store, issued, payload, line_items, subtotal, receipt_no,
                   sale_id, dec, nreq, ncrud, reads>>

\* The response is sent; the worker is free again.
create_sale_return(p) ==
    /\ pc[p] = "done"
    /\ pc' = [pc EXCEPT ![p] = "idle"]
    /\ payload' = [payload EXCEPT ![p] = NoPayload]
    /\ line_items' = [line_items EXCEPT ![p] = <<>>]
    /\ subtotal' = [subtotal EXCEPT ![p] = F(0)]
    /\ receipt_no' = [receipt_no EXCEPT ![p] = NoReceipt]
    /\ sale_id' = [sale_id EXCEPT ![p] = 0]
    /\ dec' = [dec EXCEPT ![p] = 0]
    /\ response' = [response EXCEPT ![p] = NoResponse]
    /\ UNCHANGED <<store, issued, nreq, ncrud, failed, reads>>

\* ------------------------------------------------------------------------
\* Read endpoints
\* ------------------------------------------------------------------------
\* The receipt numbers a client asks for: those of the first two sales,
\* under every clock reading.
ReceiptNos == {ReceiptNo(t, n) : t \in Times, n \in {1, 2}}

\* db["sale"].find_one({"receipt_no": receipt_no}): the documents that match
find_receipt(r) == {i \in DOMAIN sale : sale[i].receipt_no = r}

\* A Sale whose lines show the names their Items have now.
refreshed(doc) ==
    [doc EXCEPT !.items =
        [k \in DOMAIN doc.items |->
            IF item[doc.items[k].item_id.oid].st = "live"
            THEN [doc.items[k] EXCEPT !.name = item[doc.items[k].item_id.oid].name]
            ELSE doc.items[k]]]

\* Mutant of get_receipt: the lines returned follow their Items.
get_receipt_live(r) ==
    /\ nread < MaxReads
    /\ nread' = nread + 1
    /\ IF find_receipt(r) = {}
       THEN /\ read_resp' = [op |-> "get_receipt", arg |-> r, status |-> 404, body |-> None]
            /\ UNCHANGED answers
       ELSE \E i \in find_receipt(r) :
            /\ read_resp' = [op |-> "get_receipt", arg |-> r, status |-> 200,
                             body |-> Some(serialize(refreshed(sale[i])))]
            /\ answers' = Append(answers, [receipt_no |-> r,
                                           body |-> serialize(refreshed(sale[i]))])
    /\ UNCHANGED <<store, issued, locals, nreq, ncrud, failed>>

\* GET /api/receipt/{receipt_no} (lines 256-261); find_one returns one of
\* the documents that match.
get_receipt(r) ==
    /\ nread < MaxReads
    /\ nread' = nread + 1
    /\ IF find_receipt(r) = {}
       THEN /\ read_resp' = [op |-> "get_receipt", arg |-> r, status |-> 404, body |-> None]
            /\ UNCHANGED answers
       ELSE \E i \in find_receipt(r) :
            /\ read_resp' = [op |-> "get_receipt", arg |-> r, status |-> 200,
                             body |-> Some(serialize(sale[i]))]
            /\ answers' = Append(answers, [receipt_no |-> r, body |-> serialize(sale[i])])
    /\ UNCHANGED <<store, issued, locals, nreq, ncrud, failed>>

\* The optional bounds of a date range (start, end query parameters): no
\* bound, from the later clock reading on, up to the earlier one.
Starts == {None, Some(2)}
Ends == {None, Some(1)}

\* {"$match": {"created_at": {"$gte": start, "$lte": end}}}; no stage when
\* neither bound is given (lines 272-283).
match_stage(start, end) ==
    {i \in DOMAIN sale :
        /\ start = None \/ sale[i].created_at >= start[1]
        /\ end = None \/ sale[i].created_at <= end[1]}

\* {"$unwind": "$items"}: the (sale, line) pairs of the matching sales
unwind(S) == {<<i, k>> : i \in S, k \in 1..MaxLines} \cap
             UNION {{<<i, k>> : k \in DOMAIN sale[i].items} : i \in S}

\* {"$sum": "$items.quantity"} over the lines of a group
RECURSIVE sum_quantity(_)
sum_quantity(L) ==
    IF L = {} THEN 0
    ELSE LET l == CHOOSE l \in L : TRUE
         IN  sale[l[1]].items[l[2]].quantity + sum_quantity(L \ {l})

\* {"$group": {"_id": "$items.item_id", "quantity": {"$sum": ...}}}
group(S) ==
    {[_id |-> g, quantity |-> sum_quantity({l \in unwind(S) : sale[l[1]].items[l[2]].item_id = g})] :
        g \in {sale[l[1]].items[l[2]].item_id : l \in unwind(S)}}

\* Mutant of sorted: ascending.
sorted_asc(agg) == \A i, j \in DOMAIN agg : i < j => agg[i].quantity <= agg[j].quantity

\* {"$sort": {"quantity": -1}}: descending; groups of equal quantity come
\* in an order the store does not fix.
sorted(agg) == \A i, j \in DOMAIN agg : i < j => agg[i].quantity >= agg[j].quantity

\* list(db["sale"].aggregate(pipeline)): the lists the pipeline can return
aggregate(start, end) ==
    LET G == group(match_stage(start, end))
    IN  {agg \in [1..Cardinality(G) -> G] :
            /\ \A i, j \in DOMAIN agg : i # j => agg[i] # agg[j]
            /\ sorted(agg)}

\* build(entry) (lines 301-309): the details come from the Item as it is
\* now, and are empty when the Item is no longer stored.
build(entry) ==
    LET it == item[entry._id.oid]
    IN  [item_id |-> entry._id.oid,
         name |-> IF it.st = "live" THEN Some(it.name) ELSE None,
         quantity |-> entry.quantity,
         price |-> IF it.st = "live" THEN it.price ELSE F(0)]

\* GET /api/stats/top (lines 267-311)
stats_top(start, end) ==
    /\ nread < MaxReads
    /\ nread' = nread + 1
    /\ \E agg \in aggregate(start, end) :
        read_resp' =
            [op |-> "stats_top", arg |-> [start |-> start, end |-> end], status |-> 200,
             body |-> IF agg = <<>>
                      THEN Some([most_selling |-> None, least_selling |-> None])
                      ELSE Some([most_selling |-> Some(build(agg[1])),
                                 least_selling |-> Some(build(agg[Len(agg)]))])]
    /\ UNCHANGED <<store, issued, locals, nreq, ncrud, failed, answers>>

\* One sale request, any payload, with item requests in between its store
\* calls.
Init == InitWith(InitItems)

Next ==
    \/ ncrud < MaxCrud /\ \E id \in ItemIds, doc \in ItemIns : create_item(id, doc)
    \/ ncrud < MaxCrud /\ \E id \in ItemIds, u \in ItemUpdates : update_item(id, u)
    \/ ncrud < MaxCrud /\ \E id \in ItemIds : delete_item(id)
    \/ nreq = 0 /\ \E pl \in SaleIns : create_sale_begin(1, pl)
    \/ \E p \in Procs : create_sale_fetch(p)
    \/ \E p \in Procs : create_sale_pay(p)
    \/ \E p \in Procs, t \in Times : generate_receipt_no(p, t)
    \/ \E p \in Procs, t \in Times : create_sale_insert(p, t)
    \/ \E p \in Procs : create_sale_stock(p)
    \/ \E p \in Procs : create_sale_saved(p)
    \/ \E p \in Procs : store_error(p)
    \/ \E p \in Procs : create_sale_return(p)

Spec == Init /\ [][Next]_vars

\* Sale requests racing on two workers, and following one another.
InitConc == InitWith({InitItemsConc})

NextConc ==
    \/ nreq < MaxRequests /\ \E p \in Procs, pl \in SaleInsConc : create_sale_begin(p, pl)
    \/ \E p \in Procs : create_sale_fetch(p)
    \/ \E p \in Procs : create_sale_pay(p)
    \/ \E p \in Procs, t \in Times : generate_receipt_no(p, t)
    \/ \E p \in Procs, t \in Times : create_sale_insert(p, t)
    \/ \E p \in Procs : create_sale_stock(p)
    \/ \E p \in Procs : create_sale_saved(p)
    \/ \E p \in Procs : store_error(p)
    \/ \E p \in Procs : create_sale_return(p)

SpecConc == InitConc /\ [][NextConc]_vars

\* A store that has served one sale, then a further sale request, with
\* item updates, item deletions and read requests in between its store
\* calls.
SaleInsReads ==
    [items : {<<Line("a1", 1), Line("b2", 1)>>, <<Line("b2", 1)>>}, paid : {F(6000)}]

\* The updates that change the name or the price of an Item.
ItemUpdatesReads == {u \in ItemUpdates : u.name # None \/ u.price # None}

\* The Sale the earlier request, one unit of b2 paid 6.00, has stored
\* (lines 193-224).
FirstSale ==
    LET li == line_item("b2", InitItemsConc["b2"], 1)
        sub == FAdd(F(0), li.line_total)
    IN  [items |-> <<li>>,
         subtotal |-> Round2(sub),
         tax |-> tax_of(sub),
         total |-> total_of(sub),
         paid |-> F(6000),
         change |-> change_of(F(6000), total_of(sub)),
         receipt_no |-> ReceiptNo(1, returned_seq({})),
         created_at |-> 1]

InitReads ==
    /\ item = inc_stock(InitItemsConc, "b2", 1)
    /\ sale = <<FirstSale>>
    /\ counters = inc_receipt({})
    /\ issued = <<FirstSale.receipt_no>>
    /\ pc = [p \in Procs |-> "idle"]
    /\ payload = [p \in Procs |-> NoPayload]
    /\ line_items = [p \in Procs |-> <<>>]
    /\ subtotal = [p \in Procs |-> F(0)]
    /\ receipt_no = [p \in Procs |-> NoReceipt]
    /\ sale_id = [p \in Procs |-> 0]
    /\ dec = [p \in Procs |-> 0]
    /\ response = [p \in Procs |-> NoResponse]
    /\ nreq = 0
    /\ ncrud = 0
    /\ failed = FALSE
    /\ answers = <<>>
    /\ read_resp = NoRead
    /\ nread = 0

NextReads ==
    \/ ncrud < MaxCrud /\ \E id \in ItemIds, u \in ItemUpdatesReads : update_item(id, u)
    \/ ncrud < MaxCrud /\ \E id \in ItemIds : delete_item(id)
    \/ nreq = 0 /\ \E pl \in SaleInsReads : create_sale_begin(1, pl)
    \/ create_sale_fetch(1)
    \/ create_sale_pay(1)
    \/ \E t \in Times : generate_receipt_no(1, t)
    \/ \E t \in Times : create_sale_insert(1, t)
    \/ create_sale_stock(1)
    \/ create_sale_saved(1)
    \/ store_error(1)
    \/ create_sale_return(1)
    \/ nread < MaxReads /\ \E r \in ReceiptNos : get_receipt(r)
    \/ nread < MaxReads /\ \E start \in Starts, end \in Ends : stats_top(start, end)

SpecReads == InitReads /\ [][NextReads]_vars

\* ------------------------------------------------------------------------
\* Properties
\* ------------------------------------------------------------------------
\* Worker p takes a step.
Moved(p) == pc'[p] # pc[p] \/ line_items'[p] # line_items[p] \/ dec'[p] # dec[p]

Detail(p) == response[p].detail

\* C1: in every reachable state every stored Item has stock >= 0.
C1_StockNeverNegative ==
    \A i \in ItemIds : item[i].st = "live" => item[i].stock >= 0

\* Two requests, each one line of quantity 1 for the Item of stock 1 and
\* paid in full, have both answered, with no store failure.
C2_Racing ==
    /\ nreq = 2
    /\ \A p \in Procs :
        /\ pc[p] = "done"
        /\ payload[p].items = <<Line("a1", 1)>>
        /\ response[p].status # 500

\* C2: two concurrent requests, each one line of quantity 1 for the same
\* active Item of stock 1 and paid in full, with no store failure: once
\* both have answered, exactly one has succeeded, the other was refused
\* with "Insufficient stock", and the Item's stock is 0.
C2_ExactlyOneSucceeds ==
    C2_Racing =>
        /\ \E p \in Procs :
            /\ response[p].status = 201
            /\ \A q \in Procs \ {p} :
                response[q].status = 400 /\ Detail(q) = "Insufficient stock"
        /\ item["a1"].stock = 0

\* C3: the sequence components returned by any number of
\* generate_receipt_no calls, in any interleaving, are pairwise distinct,
\* and so are the receipt numbers: among all values returned so far, among
\* the requests in flight, and among the stored sales.
C3_ReceiptsDistinct ==
    /\ \A i, j \in DOMAIN issued :
        i # j => issued[i].seq # issued[j].seq /\ issued[i] # issued[j]
    /\ \A p, q \in Procs :
        p # q /\ receipt_no[p] # NoReceipt /\ receipt_no[q] # NoReceipt
            => receipt_no[p].seq # receipt_no[q].seq
    /\ \A i, j \in DOMAIN sale :
        i # j => sale[i].receipt_no.seq # sale[j].receipt_no.seq

\* Two requests hold a receipt number at the same time.
C3_Witness ==
    /\ \A p \in Procs : pc[p] = "insert"
    /\ Len(issued) >= 2

\* The counter document exists once an allocation has been made; the
\* counter is the number of allocations made; the k-th allocation has
\* returned k.
C4_Kth ==
    /\ (counters = {}) <=> (issued = <<>>)
    /\ CounterValue = Len(issued)
    /\ \A k \in DOMAIN issued : DigitsValue(issued[k].seq) = k
    /\ \A j, k \in DOMAIN issued : j < k => DigitsValue(issued[j].seq) < DigitsValue(issued[k].seq)

\* C4: the counter document is created by the first allocation, which
\* yields 1; the k-th allocation yields k, so every allocation returns more
\* than every earlier one; and no step decreases the counter.
C4_CounterMonotonic ==
    [](C4_Kth) /\ [][CounterValue' >= CounterValue /\ Len(issued') >= Len(issued)]_vars

\* The counter has served a second allocation.
C4_Witness == CounterValue >= 2 /\ Len(issued) >= 2 /\ \E p \in Procs : pc[p] = "insert"

\* C5: every stored Sale has total = round(subtotal + tax, 2),
\* change = round(paid - total, 2) and change >= 0.
C5_SaleTotals ==
    \A i \in DOMAIN sale :
        /\ sale[i].total = Round2(FAdd(sale[i].subtotal, sale[i].tax))
        /\ sale[i].change = Round2(FSub(sale[i].paid, sale[i].total))
        /\ FGe(sale[i].change, F(0))

\* The sum of the line_total fields of a list of line items.
RECURSIVE SumLineTotals(_)
SumLineTotals(lis) ==
    IF lis = <<>> THEN F(0)
    ELSE FAdd(SumLineTotals(SubSeq(lis, 1, Len(lis) - 1)), lis[Len(lis)].line_total)

\* Every line_total of a stored Sale is its price times its quantity.
LineTotalsRight ==
    \A i \in DOMAIN sale : \A k \in DOMAIN sale[i].items :
        sale[i].items[k].line_total = FMul(sale[i].items[k].price, sale[i].items[k].quantity)

\* The Sale a worker has stored has one line item per request line, in
\* input order.
LinesFollowRequest ==
    \A p \in Procs : sale_id[p] # 0 =>
        LET its == sale[sale_id[p]].items
            req == payload[p].items
        IN  /\ Len(its) = Len(req)
            /\ \A k \in DOMAIN its :
                /\ its[k].item_id = ObjectId(req[k].item_id)
                /\ its[k].quantity = req[k].quantity

\* C6 as claimed: every line_total is price times quantity, and the
\* subtotal of every stored Sale is the sum of its line_totals.
C6_SubtotalIsSum ==
    /\ LineTotalsRight
    /\ LinesFollowRequest
    /\ \A i \in DOMAIN sale : sale[i].subtotal = SumLineTotals(sale[i].items)

\* C6 as amended: every line_total is price times quantity, and the
\* subtotal of every stored Sale is the sum of its line_totals rounded to
\* two decimals, with one line item per request line, in input order.
C6_SubtotalIsRoundedSum ==
    /\ LineTotalsRight
    /\ LinesFollowRequest
    /\ \A i \in DOMAIN sale : sale[i].subtotal = Round2(SumLineTotals(sale[i].items))

\* A Sale of two lines is stored, one of them for a quantity other than 1,
\* and rounding changes its subtotal.
C6_Witness ==
    \E i \in DOMAIN sale :
        /\ Len(sale[i].items) = 2
        /\ \E k \in DOMAIN sale[i].items : sale[i].items[k].quantity # 1
        /\ sale[i].subtotal # SumLineTotals(sale[i].items)

\* The request of worker p has written nothing: it holds no receipt
\* number, has inserted no Sale and has issued no stock update.
WroteNothing(p) == receipt_no[p] = NoReceipt /\ sale_id[p] = 0 /\ dec[p] = 0

\* The request of worker p is past the payment check.
PastPayment(p) ==
    \/ pc[p] \in {"receipt", "insert", "stock", "saved"}
    \/ pc[p] = "done" /\ ~WroteNothing(p)
    \/ pc[p] = "done" /\ response[p].status = 201

\* The line the loop of lines 187-202 looks at next.
NextLine(p) == payload[p].items[Len(line_items[p]) + 1]

\* The payment check of a request with paid < total answers 400 and writes
\* nothing.
C7_Step ==
    \A p \in Procs :
        pc[p] = "pay" /\ Moved(p) /\ FLt(payload[p].paid, total_of(subtotal[p])) =>
            /\ pc'[p] = "done"
            /\ response'[p].status = 400
            /\ response'[p].detail = "Paid amount is less than total"
            /\ UNCHANGED <<store, issued>>

\* No request with paid < total is past the payment check; a request
\* refused for its payment has written nothing.
C7_State ==
    \A p \in Procs :
        /\ PastPayment(p) => ~FLt(payload[p].paid, total_of(subtotal[p]))
        /\ Detail(p) = "Paid amount is less than total" =>
            /\ response[p].status = 400
            /\ WroteNothing(p)
            /\ sale = <<>> /\ counters = {}

\* C7: a request whose lines have all passed the checks and whose paid
\* amount is less than its total is answered 400 "Paid amount is less than
\* total" by its next step, which writes nothing; such a request never gets
\* past the payment check, and a request refused for its payment has
\* stored no Sale, changed no stock and taken no receipt number.
C7_InsufficientPayment == [](C7_State) /\ [][C7_Step]_vars

\* A request of two lines has been refused for its payment.
C7_Witness ==
    \E p \in Procs :
        /\ pc[p] = "done"
        /\ Detail(p) = "Paid amount is less than total"
        /\ Len(line_items[p]) = 2

\* The check of a line that asks for more than the stock of its active
\* Item answers 400 and writes nothing.
C8_Step ==
    \A p \in Procs :
        (/\ pc[p] = "fetch" /\ Moved(p) /\ response'[p].status # 500
         /\ oid_ok(NextLine(p).item_id)
         /\ find_active(NextLine(p).item_id)
         /\ item[NextLine(p).item_id].stock < NextLine(p).quantity) =>
            /\ pc'[p] = "done"
            /\ response'[p].status = 400
            /\ response'[p].detail = "Insufficient stock"
            /\ response'[p].arg = item[NextLine(p).item_id].name
            /\ UNCHANGED <<store, issued>>

\* A request refused for stock has written nothing.
C8_State ==
    \A p \in Procs :
        Detail(p) = "Insufficient stock" =>
            /\ response[p].status = 400
            /\ WroteNothing(p)
            /\ sale = <<>> /\ counters = {}

C9_Step ==
    \A p \in Procs :
        /\ (/\ pc[p] = "fetch" /\ Moved(p) /\ response'[p].status # 500
            /\ oid_ok(NextLine(p).item_id)
            /\ item[NextLine(p).item_id].st = "live"
            /\ ~item[NextLine(p).item_id].is_active) =>
                /\ pc'[p] = "done"
                /\ response'[p].status = 400
                /\ response'[p].detail = "Item not available"
                /\ response'[p].arg = NextLine(p).item_id
                /\ UNCHANGED <<store, issued>>
        /\ line_items'[p] # line_items[p] /\ line_items'[p] # <<>> =>
                /\ pc[p] = "fetch"
                /\ item[NextLine(p).item_id].st = "live"
                /\ item[NextLine(p).item_id].is_active

\* A request refused for an unavailable Item has written nothing.
C9_State ==
    \A p \in Procs :
        Detail(p) = "Item not available" =>
            /\ response[p].status = 400
            /\ WroteNothing(p)
            /\ sale = <<>> /\ counters = {}

\* C9: when the line a request is checking names an Item that exists but
\* is inactive, the request is answered 400 "Item not available" by that
\* step, whatever the stock and the quantity, and nothing is written; a
\* request so refused has stored no Sale; and a line is recorded only for
\* an Item that is active when the line is checked.
C9_InactiveUnavailable == [](C9_State) /\ [][C9_Step]_vars

\* A request is refused for an inactive Item whose stock covers the
\* quantity asked, on its second line.
C9_Witness ==
    \E p \in Procs :
        /\ pc[p] = "done"
        /\ Detail(p) = "Item not available"
        /\ Len(line_items[p]) = 1
        /\ LET it == payload[p].items[2]
           IN  /\ oid_ok(it.item_id)
               /\ item[it.item_id].st = "live"
               /\ ~item[it.item_id].is_active
               /\ item[it.item_id].stock >= it.quantity

\* The business-rule refusals of create_sale.
Refusals ==
    {"No items in sale", "Item not available", "Insufficient stock",
     "Paid amount is less than total"}

\* The steps of a request up to and including a refusal change neither the
\* sales, nor an Item, nor the counter.
C10_Step ==
    \A p \in Procs :
        Moved(p) /\ (pc[p] \in {"idle", "fetch", "pay"} \/ response'[p].detail \in Refusals) =>
            UNCHANGED <<store, issued>>

\* A refused request has written nothing.
C10_State ==
    \A p \in Procs :
        Detail(p) \in Refusals =>
            /\ response[p].status = 400
            /\ WroteNothing(p)
            /\ sale = <<>> /\ counters = {} /\ issued = <<>>

\* C10: a request refused with a business-rule error (no lines, Item not
\* available, insufficient stock, insufficient payment) has written
\* nothing: none of its steps up to the refusal changes the sales, an Item
\* or the counter, and it has taken no receipt number.
C10_NoWriteOnRefusal == [](C10_State) /\ [][C10_Step]_vars

\* A request has been refused at the payment check, the last check before
\* the first write.
C10_Witness ==
    \E p \in Procs :
        /\ pc[p] = "done"
        /\ Detail(p) = "Paid amount is less than total"
        /\ counters = {}

\* The quantity the first n lines of a list ask of the item with id x.
RECURSIVE SoldOf(_, _, _)
SoldOf(lines, x, n) ==
    IF n = 0 THEN 0
    ELSE SoldOf(lines, x, n - 1) + (IF lines[n].item_id = x THEN lines[n].quantity ELSE 0)

\* The only request so far has succeeded: every Item is as it was at the
\* start, but for its stock, which is lower by the quantity the request
\* asked of it.
C12_State ==
    \A p \in Procs :
        nreq = 1 /\ pc[p] = "done" /\ response[p].status = 201 =>
            \A i \in ItemIds :
                item[i] = [InitItemsConc[i] EXCEPT
                              !.stock = @ - SoldOf(payload[p].items, i, Len(payload[p].items))]

\* A stock update of a request lowers the stock of the Item of its next
\* line by the quantity of that line and changes nothing else.
C12_Step ==
    \A p \in Procs :
        pc[p] = "stock" /\ dec'[p] = dec[p] + 1 =>
            LET li == line_items[p][dec[p] + 1]
                id == li.item_id.oid
            IN  item' = IF item[id].st = "live"
                        THEN [item EXCEPT ![id].stock = @ - li.quantity]
                        ELSE item

\* C12: when a request succeeds with no other request interleaved and no
\* store failure, each Item it names ends with its stock lower by the
\* total quantity sold of it, and every other Item keeps its stock; each
\* stock update lowers one stock by one line's quantity.
C12_SequentialDecrement == [](C12_State) /\ [][C12_Step]_vars

\* The only request so far sold 2 of the Item of stock 2 and has succeeded.
C12_Witness ==
    \E p \in Procs :
        /\ nreq = 1 /\ pc[p] = "done" /\ response[p].status = 201
        /\ payload[p].items = <<Line("b2", 2)>>
        /\ item["b2"].stock = 0
        /\ item["a1"].stock = 1

\* A stock update that raises ends the request with a 500 and changes
\* nothing in the store; a request that has answered touches the store no
\* more.
C13_Step ==
    \A p \in Procs :
        /\ pc[p] = "stock" /\ pc'[p] = "done" =>
            /\ response'[p].status = 500
            /\ dec'[p] = dec[p]
            /\ UNCHANGED <<store, issued>>
        /\ pc[p] = "done" /\ Moved(p) => UNCHANGED <<store, issued>>

\* A request answered 500 after its insert: its Sale is stored as it was
\* written; and, when it is the only request so far, the stock updates
\* issued before the failure are in place and the others are not.
C13_State ==
    \A p \in Procs :
        pc[p] = "done" /\ response[p].status = 500 /\ sale_id[p] # 0 =>
            /\ sale_id[p] \in DOMAIN sale
            /\ sale[sale_id[p]].items = line_items[p]
            /\ sale[sale_id[p]].receipt_no = receipt_no[p]
            /\ dec[p] <= Len(line_items[p])
            /\ nreq = 1 =>
                \A i \in ItemIds :
                    item[i].stock =
                        InitItemsConc[i].stock - SoldOf(payload[p].items, i, dec[p])

\* C13: when the insert of the Sale has succeeded and a later stock update
\* fails, the request is answered 500, the Sale stays stored, the failed
\* update and those after it are not applied and not retried, and the
\* updates already applied are not rolled back.
C13_PartialDecrement == [](C13_State) /\ [][C13_Step]_vars

\* The second stock update of a request of two lines has failed: the
\* first Item's stock is lowered, the second Item's is not.
C13_Witness ==
    \E p \in Procs :
        /\ nreq = 1 /\ pc[p] = "done" /\ response[p].status = 500
        /\ sale_id[p] # 0 /\ dec[p] = 1 /\ Len(line_items[p]) = 2
        /\ item["a1"].stock = 0
        /\ item["b2"].stock = 2

\* C14: every line item of every stored Sale has quantity >= 1.
C14_QuantitiesPositive ==
    \A i \in DOMAIN sale : \A k \in DOMAIN sale[i].items :
        sale[i].items[k].quantity >= 1

\* Every line of the request of worker p has passed its checks.
Validated(p) == Len(line_items[p]) = Len(payload[p].items)

\* What a request holds tells how far it has come: a receipt number is
\* held only after validation and payment, a Sale is inserted only with a
\* receipt number, a stock update is issued only with the Sale inserted;
\* a refused request holds none of them.
C17_State ==
    \A p \in Procs :
        /\ pc[p] \in {"pay", "receipt", "insert", "stock", "saved"} => Validated(p)
        /\ pc[p] \in {"insert", "stock", "saved"} => receipt_no[p] # NoReceipt
        /\ pc[p] \in {"stock", "saved"} => sale_id[p] # 0
        /\ receipt_no[p] # NoReceipt =>
            Validated(p) /\ ~paid_less(payload[p].paid, total_of(subtotal[p]))
        /\ sale_id[p] # 0 => receipt_no[p] # NoReceipt /\ sale_id[p] \in DOMAIN sale
        /\ dec[p] > 0 => sale_id[p] # 0
        /\ pc[p] = "done" /\ response[p].status = 400 => WroteNothing(p)

\* A step of a request writes to the counter only after validation and
\* the payment check, to the sales only with the receipt number taken, and
\* to an Item only with its Sale inserted, for the lines in input order.
C17_Step ==
    \A p \in Procs : Moved(p) =>
        /\ counters' # counters =>
            /\ pc[p] = "receipt" /\ Validated(p)
            /\ ~paid_less(payload[p].paid, total_of(subtotal[p]))
            /\ sale_id[p] = 0 /\ sale' = sale /\ item' = item
        /\ sale' # sale =>
            /\ pc[p] = "insert" /\ receipt_no[p] # NoReceipt
            /\ dec[p] = 0 /\ item' = item
        /\ dec'[p] > dec[p] =>
            /\ pc[p] = "stock" /\ sale_id[p] \in DOMAIN sale
            /\ dec'[p] = dec[p] + 1
            /\ LET li == sale[sale_id[p]].items[dec[p] + 1]
               IN  /\ li.item_id = ObjectId(payload[p].items[dec[p] + 1].item_id)
                   /\ item' = inc_stock(item, li.item_id.oid, li.quantity)
        /\ item' # item => dec'[p] > dec[p]

\* C17: in every request the lines are validated first, then the payment
\* is checked, then the receipt number is taken, then the Sale is
\* inserted, then the stock is lowered line by line in input order: no
\* stock update without the Sale inserted, no counter increment for a
\* request that fails validation.
C17_StepOrder == [](C17_State) /\ [][C17_Step]_vars

\* A request of two lines for two different Items has gone through all
\* its steps and both stocks have changed.
C17_Witness ==
    \E p \in Procs :
        /\ pc[p] = "done" /\ response[p].status = 201 /\ dec[p] = 2
        /\ payload[p].items[1].item_id # payload[p].items[2].item_id
        /\ payload[p].items[1].quantity = 1 /\ payload[p].items[2].quantity = 2

\* The quantity the line items of the first n stored Sales record for the
\* Item with id i.
RECURSIVE SoldInSales(_, _)
SoldInSales(i, n) ==
    IF n = 0 THEN 0
    ELSE SoldInSales(i, n - 1) + SoldOf(sale[n].items, ObjectId(i), Len(sale[n].items))

\* No request is in flight.
AllFinished == \A p \in Procs : pc[p] \in {"idle", "done"}

\* C18: with no store failure (and no item update or delete), once every
\* request has finished, the stock of each Item is its initial stock minus
\* the quantities of that Item over all line items of all stored Sales,
\* however the requests were interleaved.
C18_NoLostDecrement ==
    ~failed /\ AllFinished =>
        \A i \in ItemIds :
            item[i].stock = InitItemsConc[i].stock - SoldInSales(i, Len(sale))

\* Two requests that raced for the last unit of an Item have both stored
\* their Sale, and both stock updates are in the stock.
C18_Witness ==
    /\ ~failed /\ Len(sale) = 2
    /\ \A p \in Procs : pc[p] = "done" /\ response[p].status = 201
    /\ \A n \in DOMAIN sale : SoldOf(sale[n].items, ObjectId("a1"), Len(sale[n].items)) = 1
    /\ item["a1"].stock = Coffee.stock - 2

\* What the store, as it is now, has against a request line: the Item is
\* unavailable (absent or inactive), or else its stock is short; "" when
\* the line passes.
LineVerdict(it) ==
    IF it.item_id \notin ItemIds THEN "Invalid id format"
    ELSE IF item[it.item_id].st # "live" \/ ~item[it.item_id].is_active
    THEN "Item not available"
    ELSE IF item[it.item_id].stock < it.quantity THEN "Insufficient stock"
    ELSE ""

LineErrors == {"Invalid id format", "Item not available", "Insufficient stock"}

\* A validation step looks at the line after those that have passed and
\* answers with what the store has against that line, or records it; the
\* payment is refused only with every line recorded.
C19_Step ==
    \A p \in Procs :
        /\ pc[p] = "fetch" /\ Moved(p) /\ response'[p].status # 500 =>
            IF LineVerdict(NextLine(p)) = ""
            THEN /\ Len(line_items'[p]) = Len(line_items[p]) + 1
                 /\ pc'[p] \in {"fetch", "pay"}
            ELSE /\ pc'[p] = "done"
                 /\ response'[p].status = 400
                 /\ response'[p].detail = LineVerdict(NextLine(p))
                 /\ line_items'[p] = line_items[p]
        /\ Moved(p) /\ response'[p].detail = "Paid amount is less than total" =>
            pc[p] = "pay" /\ Validated(p)

\* A request refused for a line has recorded the lines before it and no
\* more; when no item request has changed the store, the refusal is the
\* one of the earliest line the store has something against.
C19_State ==
    \A p \in Procs :
        /\ Detail(p) \in LineErrors =>
            /\ Len(line_items[p]) < Len(payload[p].items)
            /\ ncrud = 0 =>
                /\ \A k \in 1..Len(line_items[p]) : LineVerdict(payload[p].items[k]) = ""
                /\ LineVerdict(NextLine(p)) = Detail(p)
        /\ Detail(p) = "Paid amount is less than total" =>
            /\ Validated(p)
            /\ ncrud = 0 => \A k \in DOMAIN payload[p].items : LineVerdict(payload[p].items[k]) = ""

\* C19: the lines are validated in input order and validation stops at
\* the first failing line: the error is the one of the earliest line that
\* is unavailable or short of stock, unavailability before stock on the
\* same line, and the payment is refused only when every line has passed.
C19_FirstFailingLine == [](C19_State) /\ [][C19_Step]_vars

\* A request whose first line is short of stock and whose second line
\* names an unavailable Item is refused for the stock of the first.
C19_Witness ==
    \E p \in Procs :
        /\ pc[p] = "done" /\ ncrud = 0
        /\ Detail(p) = "Insufficient stock"
        /\ Len(payload[p].items) = 2 /\ line_items[p] = <<>>
        /\ LineVerdict(payload[p].items[2]) = "Item not available"

\* The sequence value of a stored Sale's receipt number.
SeqValue(i) == DigitsValue(sale[i].receipt_no.seq)

\* C20: in every reachable state, whatever the interleaving and the store
\* failures, no two stored Sales carry the same sequence value, every
\* stored Sale's sequence value lies between 1 and the counter, and there
\* are at most as many stored Sales as the counter says.
C20_SalesWithinCounter ==
    /\ \A i, j \in DOMAIN sale : i # j => SeqValue(i) # SeqValue(j)
    /\ \A i \in DOMAIN sale : 1 <= SeqValue(i) /\ SeqValue(i) <= CounterValue
    /\ Len(sale) <= CounterValue

\* A receipt number was taken and lost to a store failure: the one stored
\* Sale carries the second value, and the counter is ahead of the sales.
C20_Witness ==
    /\ failed
    /\ Len(sale) = 1 /\ CounterValue = 2
    /\ SeqValue(1) = 2

\* No step changes or removes a stored Sale.
C11_Step == \A i \in DOMAIN sale : i \in DOMAIN sale' /\ sale'[i] = sale[i]

\* C11: a stored Sale is never changed or removed: whatever follows (a
\* further sale, updates of an Item's name or price, deletions of Items),
\* the Sale is still stored and its line items (name, price, quantity,
\* line_total), its totals and its receipt number are as written.
C11_SalesImmutable ==
    [](Len(sale) >= 1 /\ sale[1] = FirstSale) /\ [][C11_Step]_vars

\* After a further sale and the renaming of its Item, the first Sale still
\* carries the name its Item had when it was sold.
C11_Witness ==
    /\ Len(sale) = 2
    /\ item["b2"].st = "live" /\ item["b2"].name = "Latte"
    /\ sale[1].items[1].item_id = ObjectId("b2")
    /\ sale[1].items[1].name = "Tea"

\* The stored Sales that carry receipt number r.
Carrying(r) == {k \in DOMAIN sale : sale[k].receipt_no = r}

\* The answers get_receipt has given for one receipt number are all the
\* same, and a call made now would give that answer again.
C15_State ==
    /\ \A i, j \in DOMAIN answers :
        answers[i].receipt_no = answers[j].receipt_no => answers[i].body = answers[j].body
    /\ \A i \in DOMAIN answers :
        /\ Carrying(answers[i].receipt_no) # {}
        /\ \A k \in Carrying(answers[i].receipt_no) : serialize(sale[k]) = answers[i].body

\* A get_receipt call changes nothing in the store; it answers 404 when
\* no stored Sale carries the number and 200 with such a Sale otherwise.
C15_Step ==
    nread' = nread + 1 /\ read_resp'.op = "get_receipt" =>
        /\ UNCHANGED <<store, issued>>
        /\ IF Carrying(read_resp'.arg) = {}
           THEN read_resp'.status = 404 /\ read_resp'.body = None /\ answers' = answers
           ELSE /\ read_resp'.status = 200
                /\ \E k \in Carrying(read_resp'.arg) :
                    read_resp'.body = Some(serialize(sale[k]))
                /\ Len(answers') = Len(answers) + 1

\* C15: get_receipt is idempotent and free of side effects: two calls for
\* one receipt number return the same Sale, whatever runs between them
\* (sales, item updates, item deletions); a call changes no Sale, no Item
\* and not the counter; a number no stored Sale carries is answered 404.
C15_ReceiptIdempotent == [](C15_State) /\ [][C15_Step]_vars

\* The first Sale has been returned twice; a further Sale is stored and
\* the Item of the first Sale is renamed or deleted.
C15_Witness ==
    /\ Len(answers) = 2
    /\ answers[1].receipt_no = FirstSale.receipt_no
    /\ answers[2].receipt_no = FirstSale.receipt_no
    /\ Len(sale) = 2
    /\ item["b2"].st = "gone" \/ item["b2"].name = "Latte"

\* The stored Sales created within a date range.
InRange(start, end) ==
    {k \in DOMAIN sale :
        /\ start # None => sale[k].created_at >= start[1]
        /\ end # None => sale[k].created_at <= end[1]}

\* The quantity the Sales of M among the first n record for the Item i.
RECURSIVE TotalSold(_, _, _)
TotalSold(i, M, n) ==
    IF n = 0 THEN 0
    ELSE TotalSold(i, M, n - 1) +
         (IF n \in M THEN SoldOf(sale[n].items, ObjectId(i), Len(sale[n].items)) ELSE 0)

\* The Items that the Sales of M have a line for.
SoldItems(M) ==
    {i \in ItemIds : \E k \in M : \E l \in DOMAIN sale[k].items :
        sale[k].items[l].item_id = ObjectId(i)}

\* What a stats_top call returns, against the Sales in its range.
C16_Step ==
    nread' = nread + 1 /\ read_resp'.op = "stats_top" =>
        LET M == InRange(read_resp'.arg.start, read_resp'.arg.end)
            S == SoldItems(M)
            Total(i) == TotalSold(i, M, Len(sale))
            b == read_resp'.body[1]
        IN  /\ UNCHANGED <<store, issued, answers>>
            /\ read_resp'.status = 200
            /\ IF M = {}
               THEN b.most_selling = None /\ b.least_selling = None
               ELSE LET most == b.most_selling[1]
                        least == b.least_selling[1]
                    IN  /\ most.item_id \in S /\ least.item_id \in S
                        /\ most.quantity = Total(most.item_id)
                        /\ least.quantity = Total(least.item_id)
                        /\ \A j \in S : Total(j) <= most.quantity
                        /\ \A j \in S : Total(j) >= least.quantity
                        /\ Cardinality(S) = 1 => most.item_id = least.item_id

\* C16: stats_top changes nothing and reports, over the Sales in range,
\* the quantities summed per Item: most_selling is an Item of maximal sum
\* and least_selling one of minimal sum among the Items sold, the same
\* Item when only one was sold, and both are null when no Sale is in
\* range.
C16_TopAndBottom == [][C16_Step]_vars

\* Over two Sales, one Item has sold 2 in two lines and the other 1:
\* stats_top has reported the first as most and the second as least
\* selling.
C16_Witness ==
    /\ read_resp.op = "stats_top"
    /\ Len(sale) = 2
    /\ read_resp.body[1].most_selling # None
    /\ read_resp.body[1].most_selling[1].item_id = "b2"
    /\ read_resp.body[1].most_selling[1].quantity = 2
    /\ read_resp.body[1].least_selling[1].item_id = "a1"
    /\ read_resp.body[1].least_selling[1].quantity = 1

====
